---- MODULE Spec2Model ----
(***************************************************************************)
(* pranter: streams G-code lines from stdin to a serial printer, one line  *)
(* per acknowledgment, with pause / resume / cancel requests coming back   *)
(* from the printer (src/src/main.rs).                                     *)
(*                                                                         *)
(* Two threads: the reader thread spawned in App::new, which forwards      *)
(* every line (or read error) of the serial port into an mpsc channel, and *)
(* the main thread, which runs App::run.  Text is modelled as sequences of *)
(* one-character strings so that trim, contains, starts_with and           *)
(* split_once are computed as the standard library computes them.          *)
(* The echo of lines to stdout / stderr (println!, eprintln!) is not state *)
(* of the program and is left out.                                         *)
(***************************************************************************)
EXTENDS Integers, Sequences, FiniteSets, TLC

VARIABLES
    input_lines,     \* the lines of stdin, in order
    pos,             \* number of items already taken from input_lines
    running,         \* App.running
    printer_online,  \* App.printer_online
    pending_pause,   \* App.pending_pause
    paused,          \* App.paused
    event_rx,        \* the mpsc channel: events sent and not yet received
    reader,          \* the reader thread: "alive" or "ended"
    nread,           \* number of events the reader thread has produced
    sent,            \* what has been written to the serial port, line by line
    pc,              \* main thread: "new", "run", "ok" (returned Ok), "err" (returned Err)
    error,           \* the context of the Err run returned, "none" while there is none
    handled,         \* history: number of events received by the run loop
    start_lines,     \* history: lines starting with "start" handled (0, 1, 2 for more)
    ok_since_send,   \* history: a line starting with "ok" was handled since the last write
    pause_wait,      \* history: pause marker handled, no line starting with "ok" since
    cancelled        \* history: the cancel rule has fired

vars == <<input_lines, pos, running, printer_online, pending_pause, paused,
          event_rx, reader, nread, sent, pc, error, handled, start_lines,
          ok_since_send, pause_wait, cancelled>>

-----------------------------------------------------------------------------
(* Bounds of the model *)

MaxInput == 2
MaxDeviceLines == 4
MaxQueue == 1
MaxLineLen == 3

-----------------------------------------------------------------------------
(* Text *)

WhiteSpace == {" ", "\t", "\r", "\n"}

RECURSIVE TrimStart(_)
TrimStart(s) ==
    IF s # <<>> /\ Head(s) \in WhiteSpace THEN TrimStart(Tail(s)) ELSE s

RECURSIVE TrimEnd(_)
TrimEnd(s) ==
    IF s # <<>> /\ s[Len(s)] \in WhiteSpace
    THEN TrimEnd(SubSeq(s, 1, Len(s) - 1))
    ELSE s

\* str::trim
Trim(s) == TrimEnd(TrimStart(s))

\* str::starts_with
StartsWith(s, p) == Len(s) >= Len(p) /\ SubSeq(s, 1, Len(p)) = p

\* str::contains
Contains(s, sub) ==
    \E i \in 1..(Len(s) - Len(sub) + 1) : SubSeq(s, i, i + Len(sub) - 1) = sub

\* a split at the last ';' of the line instead of the first
BeforeComment_last(s) ==
    LET hits == {i \in 1..Len(s) : s[i] = ";"}
    IN  IF hits = {} THEN s
        ELSE SubSeq(s, 1, (CHOOSE i \in hits : \A j \in hits : i >= j) - 1)

\* str::split_once(';') followed by map(before).unwrap_or(whole)
BeforeComment(s) ==
    LET hits == {i \in 1..Len(s) : s[i] = ";"}
    IN  IF hits = {} THEN s
        ELSE SubSeq(s, 1, (CHOOSE i \in hits : \A j \in hits : i <= j) - 1)

\* the command of a raw input line: comment removed, then trimmed
TrimmedLine(input_line) == Trim(BeforeComment(input_line))

ACTION_CANCEL == <<"a", "c", "t", "i", "o", "n", ":", "c", "a", "n", "c", "e", "l">>
ACTION_PAUSE == <<"a", "c", "t", "i", "o", "n", ":", "p", "a", "u", "s", "e">>
ACTION_RESUME == <<"a", "c", "t", "i", "o", "n", ":", "r", "e", "s", "u", "m", "e">>
START == <<"s", "t", "a", "r", "t">>
OK == <<"o", "k">>
M601 == <<"M", "6", "0", "1">>
M602 == <<"M", "6", "0", "2">>
CRLF == <<"\r", "\n">>

(* Lines the printer may send *)
DevOk == <<"o", "k">>
DevStart == <<"s", "t", "a", "r", "t">>
DevPause == <<"/", "/", "a", "c", "t", "i", "o", "n", ":", "p", "a", "u", "s", "e">>
DevCancel == <<"/", "/", "a", "c", "t", "i", "o", "n", ":", "c", "a", "n", "c", "e", "l">>
DevResume == <<"/", "/", "a", "c", "t", "i", "o", "n", ":", "r", "e", "s", "u", "m", "e">>
DevEcho == <<"e", "c", "h", "o", ":", "b", "u", "s", "y">>

DeviceLines == {DevOk, DevStart, DevPause, DevCancel, DevResume, DevEcho}

(* Lines of the printer that more than one rule of handle_printer_rx matches, *)
(* and a line with whitespace around it                                       *)
DevOkPause == OK \o <<" ">> \o DevPause
DevOkResume == OK \o <<" ">> \o DevResume
DevStartCancel == START \o <<" ">> \o DevCancel
DevResumePause == DevResume \o <<" ">> \o DevPause
DevOkPadded == <<" ">> \o OK \o <<"\r">>

TieLines == {DevOkPause, DevOkResume, DevStartCancel, DevResumePause, DevOkPadded}

(* Lines stdin may hold *)
InG28 == <<"G", "2", "8">>
InMove == <<"G", "1", " ", "X", "1", "0", " ", ";", " ", "m", "o", "v", "e">>
InComment == <<";", " ", "h", "o", "m", "e">>

RawLines == {InG28, InMove, InComment}

Inputs == UNION {[1..n -> RawLines] : n \in 0..MaxInput}

\* every short line over a command character, blanks and the comment sign
LineChars == {"G", " ", "\t", ";"}
ShortLines == UNION {[1..n -> LineChars] : n \in 0..MaxLineLen}

\* stdin contents that hold one of the short lines, alone, first or last
QuietInputs ==
    Inputs \cup {<<l>> : l \in ShortLines}
           \cup {<<l, InG28>> : l \in ShortLines}
           \cup {<<InMove, l>> : l \in ShortLines}

\* the stdin contents used with the lines of TieLines
TieInputs == {<<InG28, InMove>>, <<InComment, InG28>>}

-----------------------------------------------------------------------------
(* Events *)

\* Event::PrinterRx(Ok(line))
RxLine(l) == [ok |-> TRUE, line |-> l]
\* Event::PrinterRx(Err(e))
RxErr == [ok |-> FALSE, line |-> <<>>]


-----------------------------------------------------------------------------
(* The App, as a record of the fields the handlers read and write.  err is *)
(* set when a handler returns Err through the ? operator.                  *)

App == [running |-> running, printer_online |-> printer_online,
        pending_pause |-> pending_pause, paused |-> paused,
        pos |-> pos, sent |-> sent, err |-> FALSE]

(* Failures of the environment are inputs of a handler: wok is whether the  *)
(* write to the serial port succeeds, rfail is which read of stdin made by  *)
(* the handler fails (1 the first, 2 the second, ...; 0 none).              *)

\* App::send: write "{line}\r\n" to the port
send(st, line, wok) ==
    IF wok THEN [st EXCEPT !.sent = Append(@, line \o CRLF)]
    ELSE [st EXCEPT !.err = TRUE]

\* next_command without the break after send: the commands left are all written
RECURSIVE next_command_no_break(_, _, _)
next_command_no_break(st, wok, rfail) ==
    IF rfail = 1 THEN [st EXCEPT !.err = TRUE]
    ELSE IF st.pos >= Len(input_lines) THEN [st EXCEPT !.running = FALSE]
    ELSE LET input_line == input_lines[st.pos + 1]
             s1 == [st EXCEPT !.pos = @ + 1]
         IN  IF TrimmedLine(input_line) = <<>>
             THEN next_command_no_break(s1, wok, rfail - 1)
             ELSE LET s2 == send(s1, TrimmedLine(input_line), wok)
                  IN  IF s2.err THEN s2
                      ELSE next_command_no_break(s2, wok, rfail - 1)

\* next_command that leaves running as it is when stdin is exhausted
RECURSIVE next_command_keeps_running(_, _, _)
next_command_keeps_running(st, wok, rfail) ==
    IF rfail = 1 THEN [st EXCEPT !.err = TRUE]
    ELSE IF st.pos >= Len(input_lines) THEN st
    ELSE LET input_line == input_lines[st.pos + 1]
             s1 == [st EXCEPT !.pos = @ + 1]
         IN  IF TrimmedLine(input_line) = <<>>
             THEN next_command_keeps_running(s1, wok, rfail - 1)
             ELSE send(s1, TrimmedLine(input_line), wok)

\* next_command without the test for an empty command
next_command_sends_empty(st, wok, rfail) ==
    IF rfail = 1 THEN [st EXCEPT !.err = TRUE]
    ELSE IF st.pos >= Len(input_lines) THEN [st EXCEPT !.running = FALSE]
    ELSE send([st EXCEPT !.pos = @ + 1], TrimmedLine(input_lines[st.pos + 1]), wok)

\* next_command that returns at a line without a command instead of going
\* on to the next line
next_command_stops_at_blank(st, wok, rfail) ==
    IF rfail = 1 THEN [st EXCEPT !.err = TRUE]
    ELSE IF st.pos >= Len(input_lines) THEN [st EXCEPT !.running = FALSE]
    ELSE LET input_line == input_lines[st.pos + 1]
             s1 == [st EXCEPT !.pos = @ + 1]
         IN  IF TrimmedLine(input_line) = <<>> THEN s1
             ELSE send(s1, TrimmedLine(input_line), wok)

\* the loop of App::send_line: take input lines until one holds a command
RECURSIVE next_command(_, _, _)
next_command(st, wok, rfail) ==
    IF rfail = 1 THEN [st EXCEPT !.err = TRUE]
    ELSE IF st.pos >= Len(input_lines) THEN [st EXCEPT !.running = FALSE]
    ELSE LET input_line == input_lines[st.pos + 1]
             s1 == [st EXCEPT !.pos = @ + 1]
         IN  IF TrimmedLine(input_line) = <<>>
             THEN next_command(s1, wok, rfail - 1)
             ELSE send(s1, TrimmedLine(input_line), wok)

\* send_line that writes M601 and goes on to the next input command
send_line_pause_falls_through(st, wok, rfail) ==
    IF st.pending_pause
    THEN LET s1 == send(st, M601, wok)
         IN  IF s1.err THEN s1
             ELSE next_command([s1 EXCEPT !.pending_pause = FALSE,
                                          !.paused = TRUE], wok, rfail)
    ELSE next_command(st, wok, rfail)

\* send_line that takes an input line before it looks at pending_pause
send_line_pause_eats_line(st, wok, rfail) ==
    IF st.pending_pause
    THEN LET s1 == send(st, M601, wok)
         IN  IF s1.err THEN s1
             ELSE [s1 EXCEPT !.pending_pause = FALSE, !.paused = TRUE,
                             !.pos = IF @ < Len(input_lines) THEN @ + 1 ELSE @]
    ELSE next_command(st, wok, rfail)

\* App::send_line
send_line(st, wok, rfail) ==
    IF st.pending_pause
    THEN LET s1 == send(st, M601, wok)
         IN  IF s1.err THEN s1
             ELSE [s1 EXCEPT !.pending_pause = FALSE, !.paused = TRUE]
    ELSE next_command(st, wok, rfail)

\* handle_printer_rx that writes M601 as soon as the pause marker arrives
handle_printer_rx_pause_at_once(st, raw, wok, rfail) ==
    LET line == Trim(raw)
    IN  IF Contains(line, ACTION_CANCEL) THEN [st EXCEPT !.running = FALSE]
        ELSE IF Contains(line, ACTION_PAUSE)
             THEN send_line([st EXCEPT !.pending_pause = TRUE], wok, rfail)
        ELSE IF Contains(line, ACTION_RESUME) THEN send(st, M602, wok)
        ELSE IF StartsWith(line, START)
             THEN IF ~st.printer_online
                  THEN send_line([st EXCEPT !.printer_online = TRUE], wok, rfail)
                  ELSE st
        ELSE IF StartsWith(line, OK) /\ ~st.paused THEN send_line(st, wok, rfail)
        ELSE st

\* handle_printer_rx that advances on every "start", online or not
handle_printer_rx_every_start(st, raw, wok, rfail) ==
    LET line == Trim(raw)
    IN  IF Contains(line, ACTION_CANCEL) THEN [st EXCEPT !.running = FALSE]
        ELSE IF Contains(line, ACTION_PAUSE) THEN [st EXCEPT !.pending_pause = TRUE]
        ELSE IF Contains(line, ACTION_RESUME) THEN send(st, M602, wok)
        ELSE IF StartsWith(line, START)
             THEN send_line([st EXCEPT !.printer_online = TRUE], wok, rfail)
        ELSE IF StartsWith(line, OK) /\ ~st.paused THEN send_line(st, wok, rfail)
        ELSE st

\* handle_printer_rx that clears paused when the resume marker arrives
handle_printer_rx_resume_unpauses(st, raw, wok, rfail) ==
    LET line == Trim(raw)
    IN  IF Contains(line, ACTION_CANCEL) THEN [st EXCEPT !.running = FALSE]
        ELSE IF Contains(line, ACTION_PAUSE) THEN [st EXCEPT !.pending_pause = TRUE]
        ELSE IF Contains(line, ACTION_RESUME)
             THEN LET s1 == send(st, M602, wok)
                  IN  IF s1.err THEN s1 ELSE [s1 EXCEPT !.paused = FALSE]
        ELSE IF StartsWith(line, START)
             THEN IF ~st.printer_online
                  THEN send_line([st EXCEPT !.printer_online = TRUE], wok, rfail)
                  ELSE st
        ELSE IF StartsWith(line, OK) /\ ~st.paused THEN send_line(st, wok, rfail)
        ELSE st

\* handle_printer_rx that sets paused as soon as the pause marker arrives
handle_printer_rx_pause_sets_paused(st, raw, wok, rfail) ==
    LET line == Trim(raw)
    IN  IF Contains(line, ACTION_CANCEL) THEN [st EXCEPT !.running = FALSE]
        ELSE IF Contains(line, ACTION_PAUSE)
             THEN [st EXCEPT !.pending_pause = TRUE, !.paused = TRUE]
        ELSE IF Contains(line, ACTION_RESUME) THEN send(st, M602, wok)
        ELSE IF StartsWith(line, START)
             THEN IF ~st.printer_online
                  THEN send_line([st EXCEPT !.printer_online = TRUE], wok, rfail)
                  ELSE st
        ELSE IF StartsWith(line, OK) /\ ~st.paused THEN send_line(st, wok, rfail)
        ELSE st

\* handle_printer_rx that tests the prefixes before the action markers
handle_printer_rx_prefix_first(st, raw, wok, rfail) ==
    LET line == Trim(raw)
    IN  IF StartsWith(line, START)
        THEN IF ~st.printer_online
             THEN send_line([st EXCEPT !.printer_online = TRUE], wok, rfail)
             ELSE st
        ELSE IF StartsWith(line, OK) /\ ~st.paused THEN send_line(st, wok, rfail)
        ELSE IF Contains(line, ACTION_CANCEL) THEN [st EXCEPT !.running = FALSE]
        ELSE IF Contains(line, ACTION_PAUSE) THEN [st EXCEPT !.pending_pause = TRUE]
        ELSE IF Contains(line, ACTION_RESUME) THEN send(st, M602, wok)
        ELSE st

\* handle_printer_rx that advances on "ok" whether paused or not
handle_printer_rx_ok_ignores_paused(st, raw, wok, rfail) ==
    LET line == Trim(raw)
    IN  IF Contains(line, ACTION_CANCEL) THEN [st EXCEPT !.running = FALSE]
        ELSE IF Contains(line, ACTION_PAUSE) THEN [st EXCEPT !.pending_pause = TRUE]
        ELSE IF Contains(line, ACTION_RESUME) THEN send(st, M602, wok)
        ELSE IF StartsWith(line, START)
             THEN IF ~st.printer_online
                  THEN send_line([st EXCEPT !.printer_online = TRUE], wok, rfail)
                  ELSE st
        ELSE IF StartsWith(line, OK) THEN send_line(st, wok, rfail)
        ELSE st

\* App::handle_printer_rx
handle_printer_rx(st, raw, wok, rfail) ==
    LET line == Trim(raw)
    IN  IF Contains(line, ACTION_CANCEL) THEN [st EXCEPT !.running = FALSE]
        ELSE IF Contains(line, ACTION_PAUSE) THEN [st EXCEPT !.pending_pause = TRUE]
        ELSE IF Contains(line, ACTION_RESUME) THEN send(st, M602, wok)
        ELSE IF StartsWith(line, START)
             THEN IF ~st.printer_online
                  THEN send_line([st EXCEPT !.printer_online = TRUE], wok, rfail)
                  ELSE st
        ELSE IF StartsWith(line, OK) /\ ~st.paused THEN send_line(st, wok, rfail)
        ELSE st

\* handle_event that drops a failed read and waits for the next event
handle_event_skips_read_error(st, event, wok, rfail) ==
    IF ~event.ok THEN st
    ELSE handle_printer_rx(st, event.line, wok, rfail)

\* App::handle_event
handle_event(st, event, wok, rfail) ==
    IF ~event.ok THEN [st EXCEPT !.err = TRUE]
    ELSE handle_printer_rx(st, event.line, wok, rfail)

-----------------------------------------------------------------------------
(* History of the handled lines, kept for the properties only *)

\* the rule of handle_printer_rx a trimmed line falls under
Rule(raw) ==
    LET line == Trim(raw)
    IN  IF Contains(line, ACTION_CANCEL) THEN "cancel"
        ELSE IF Contains(line, ACTION_PAUSE) THEN "pause"
        ELSE IF Contains(line, ACTION_RESUME) THEN "resume"
        ELSE IF StartsWith(line, START) THEN "start"
        ELSE IF StartsWith(line, OK) THEN "ok"
        ELSE "other"

EventRule(event) == IF event.ok THEN Rule(event.line) ELSE "rx_err"

\* the event is a line that, trimmed, starts with the token
StartsWithToken(event, token) == event.ok /\ StartsWith(Trim(event.line), token)

-----------------------------------------------------------------------------
(* Initial state: App::new has returned.  The reader thread is running and *)
(* holds the only Sender (event_tx itself is dropped when new returns).    *)

\* the state App::new returns, for the stdin contents of a given set
InitWith(inputs) ==
    /\ input_lines \in inputs
    /\ pos = 0
    /\ running = FALSE
    /\ printer_online = FALSE
    /\ pending_pause = FALSE
    /\ paused = FALSE
    /\ event_rx = <<>>
    /\ reader = "alive"
    /\ nread = 0
    /\ sent = <<>>
    /\ pc = "new"
    /\ error = "none"
    /\ handled = 0
    /\ start_lines = 0
    /\ ok_since_send = FALSE
    /\ pause_wait = FALSE
    /\ cancelled = FALSE

Init == InitWith(Inputs)

app_vars == <<input_lines, pos, running, printer_online, pending_pause, paused,
              sent, pc, error, handled, start_lines, ok_since_send,
              pause_wait, cancelled>>

\* the reads of stdin one handler can make: one per line that holds no
\* command, and the one after them
RECURSIVE Reads(_)
Reads(p) ==
    IF p < Len(input_lines) /\ TrimmedLine(input_lines[p + 1]) = <<>>
    THEN 1 + Reads(p + 1)
    ELSE 1

\* what the environment can do to one handler: nothing, fail its write, or
\* fail one of its reads (a write after a failed read is never made)
IoOutcomes ==
    {[wok |-> TRUE, rfail |-> 0], [wok |-> FALSE, rfail |-> 0]}
        \cup {[wok |-> TRUE, rfail |-> k] : k \in 1..Reads(pos)}

\* the process lives until main returns
Live == pc \in {"new", "run"}

\* reader thread: one more item of printer_rx.lines() is sent into the channel
\* the item is Ok(line)
ReaderLine ==
    /\ Live
    /\ reader = "alive"
    /\ nread < MaxDeviceLines
    /\ Len(event_rx) < MaxQueue
    /\ \E l \in DeviceLines : event_rx' = Append(event_rx, RxLine(l))
    /\ nread' = nread + 1
    /\ UNCHANGED <<reader>>
    /\ UNCHANGED app_vars

\* the item is Err (the read timed out or failed)
ReaderErr ==
    /\ Live
    /\ reader = "alive"
    /\ nread < MaxDeviceLines
    /\ Len(event_rx) < MaxQueue
    /\ event_rx' = Append(event_rx, RxErr)
    /\ nread' = nread + 1
    /\ UNCHANGED <<reader>>
    /\ UNCHANGED app_vars

\* reader thread: lines() is over (port closed), the closure returns and
\* its Sender is dropped
ReaderEnd ==
    /\ Live
    /\ reader = "alive"
    /\ reader' = "ended"
    /\ UNCHANGED <<event_rx, nread>>
    /\ UNCHANGED app_vars

\* App::run, entry
RunEnter ==
    /\ pc = "new"
    /\ running' = TRUE
    /\ pc' = "run"
    /\ UNCHANGED <<input_lines, pos, printer_online, pending_pause, paused,
                   event_rx, reader, nread, sent, error, handled, start_lines,
                   ok_since_send, pause_wait, cancelled>>

\* App::run, loop: running is false, break and return Ok.  main returns:
\* the App is dropped, and with it the Receiver and what is queued in it,
\* and the process exit ends the reader thread.
RunExit ==
    /\ pc = "run"
    /\ ~running
    /\ pc' = "ok"
    /\ event_rx' = <<>>
    /\ reader' = "ended"
    /\ UNCHANGED <<input_lines, pos, running, printer_online, pending_pause,
                   paused, nread, sent, error, handled, start_lines,
                   ok_since_send, pause_wait, cancelled>>

\* handle_event on the event recv yields; an Err of the handler is returned
\* from run and from main (the process ends)
ReceiveWith(outcomes) ==
    /\ \E io \in outcomes :
       \E st \in {handle_event(App, Head(event_rx), io.wok, io.rfail)},
          rule \in {EventRule(Head(event_rx))},
          starts_start \in {StartsWithToken(Head(event_rx), START)},
          starts_ok \in {StartsWithToken(Head(event_rx), OK)} :
             /\ event_rx' = IF st.err THEN <<>> ELSE Tail(event_rx)
             /\ reader' = IF st.err THEN "ended" ELSE reader
             /\ running' = st.running
             /\ printer_online' = st.printer_online
             /\ pending_pause' = st.pending_pause
             /\ paused' = st.paused
             /\ pos' = st.pos
             /\ sent' = st.sent
             /\ pc' = IF st.err THEN "err" ELSE "run"
             /\ error' = IF ~st.err THEN "none"
                         ELSE IF ~Head(event_rx).ok THEN "printer recv"
                         ELSE IF ~io.wok THEN "printer send"
                         ELSE "reading stdin"
             /\ handled' = handled + 1
             /\ start_lines' =
                  IF starts_start /\ start_lines < 2 THEN start_lines + 1
                  ELSE start_lines
             /\ ok_since_send' =
                  IF st.sent # sent THEN FALSE ELSE (ok_since_send \/ starts_ok)
             /\ pause_wait' =
                  IF rule = "pause" THEN TRUE
                  ELSE IF starts_ok THEN FALSE
                  ELSE pause_wait
             /\ cancelled' = (cancelled \/ rule = "cancel")
    /\ UNCHANGED <<input_lines, nread>>

Receive == ReceiveWith(IoOutcomes)

\* a run loop that receives without looking at running
RunRecv_ignores_running ==
    /\ pc = "run"
    /\ event_rx # <<>>
    /\ Receive

\* App::run, loop: running is true and recv yields an event
RunRecv ==
    /\ pc = "run"
    /\ running
    /\ event_rx # <<>>
    /\ Receive

\* a run loop whose App still holds event_tx: a Sender is always alive and
\* recv on the empty channel blocks
RunRecvFail_sender_kept ==
    /\ FALSE
    /\ UNCHANGED vars

\* App::run, loop: recv fails, every Sender is gone and the channel is empty
RunRecvFail ==
    /\ pc = "run"
    /\ running
    /\ event_rx = <<>>
    /\ reader = "ended"
    /\ pc' = "err"
    /\ error' = "event recv"
    /\ UNCHANGED <<input_lines, pos, running, printer_online, pending_pause,
                   paused, event_rx, reader, nread, sent, handled, start_lines,
                   ok_since_send, pause_wait, cancelled>>

Next ==
    \/ ReaderLine
    \/ ReaderErr
    \/ ReaderEnd
    \/ RunEnter
    \/ RunExit
    \/ RunRecv
    \/ RunRecvFail

Spec == Init /\ [][Next]_vars

-----------------------------------------------------------------------------
(* The same program with a well-behaved printer and environment: one       *)
(* "start" line, then one "ok" line after each line written to the port,   *)
(* no action marker, no failed read or write, the port never closed.       *)

QuietInit == InitWith(QuietInputs)

\* reader thread: the first line of the printer is "start"
QuietReaderStart ==
    /\ Live
    /\ reader = "alive"
    /\ nread = 0
    /\ Len(event_rx) < MaxQueue
    /\ event_rx' = Append(event_rx, RxLine(DevStart))
    /\ nread' = nread + 1
    /\ UNCHANGED <<reader>>
    /\ UNCHANGED app_vars

\* reader thread: the printer acknowledges a written line it has not
\* acknowledged yet
QuietReaderOk ==
    /\ Live
    /\ reader = "alive"
    /\ nread >= 1
    /\ nread - 1 < Len(sent)
    /\ Len(event_rx) < MaxQueue
    /\ event_rx' = Append(event_rx, RxLine(DevOk))
    /\ nread' = nread + 1
    /\ UNCHANGED <<reader>>
    /\ UNCHANGED app_vars

\* App::run, loop: running is true, recv yields an event, no read or write
\* of the handler fails
QuietRunRecv ==
    /\ pc = "run"
    /\ running
    /\ event_rx # <<>>
    /\ ReceiveWith({[wok |-> TRUE, rfail |-> 0]})

QuietNext ==
    \/ QuietReaderStart
    \/ QuietReaderOk
    \/ RunEnter
    \/ RunExit
    \/ QuietRunRecv

QuietSpec == QuietInit /\ [][QuietNext]_vars

\* both threads are scheduled: the reader thread forwards a line the
\* printer has sent, the main thread takes the next step of run
FairSpec ==
    /\ QuietSpec
    /\ WF_vars(QuietReaderStart \/ QuietReaderOk)
    /\ WF_vars(RunEnter \/ RunExit \/ QuietRunRecv)

-----------------------------------------------------------------------------
(* The same program with a printer that also sends the lines of TieLines   *)

TieInit == InitWith(TieInputs)

\* reader thread: the item sent into the channel is Ok(line), any line
TieReaderLine ==
    /\ Live
    /\ reader = "alive"
    /\ nread < MaxDeviceLines
    /\ Len(event_rx) < MaxQueue
    /\ \E l \in DeviceLines \cup TieLines : event_rx' = Append(event_rx, RxLine(l))
    /\ nread' = nread + 1
    /\ UNCHANGED <<reader>>
    /\ UNCHANGED app_vars

TieNext ==
    \/ TieReaderLine
    \/ ReaderErr
    \/ ReaderEnd
    \/ RunEnter
    \/ RunExit
    \/ RunRecv
    \/ RunRecvFail

TieSpec == TieInit /\ [][TieNext]_vars

-----------------------------------------------------------------------------
(* Vocabulary of the properties *)

PauseCommand == M601 \o CRLF
ResumeCommand == M602 \o CRLF

\* a written line that is an input command, not an injected M601 / M602
IsOrdinary(written) == written \notin {PauseCommand, ResumeCommand}

\* the step is the handling of one event by the run loop
HandleStep == handled' = handled + 1

\* the rule the event being handled falls under
HandledRule == EventRule(Head(event_rx))

\* the event being handled satisfies an advance condition: handle_printer_rx
\* calls send_line for it
AdvanceCondition ==
    \/ HandledRule = "start" /\ ~printer_online
    \/ HandledRule = "ok" /\ ~paused

\* some input line from position p on holds a command
HasCommand(p) ==
    \E i \in (p + 1)..Len(input_lines) : TrimmedLine(input_lines[i]) # <<>>

\* the commands held by a sequence of input lines, as they are written
RECURSIVE CommandsOf(_)
CommandsOf(lines) ==
    IF lines = <<>> THEN <<>>
    ELSE (IF TrimmedLine(Head(lines)) = <<>> THEN <<>>
          ELSE <<TrimmedLine(Head(lines)) \o CRLF>>)
         \o CommandsOf(Tail(lines))

\* what was written, without the injected M601 / M602
OrdinarySent == SelectSeq(sent, IsOrdinary)

IsPrefix(a, b) == Len(a) <= Len(b) /\ SubSeq(b, 1, Len(a)) = a

\* cmd is the text of raw before its first ';' (all of raw when it has
\* none), without the whitespace at its two ends
IsNormalized(raw, cmd) ==
    \E k \in 0..Len(raw) :
        /\ \A j \in 1..k : raw[j] # ";"
        /\ k < Len(raw) => raw[k + 1] = ";"
        /\ \E a \in 1..(k + 1), b \in 0..k :
              /\ a <= b + 1
              /\ cmd = SubSeq(raw, a, b)
              /\ \A j \in 1..(a - 1) : raw[j] \in WhiteSpace
              /\ \A j \in (b + 1)..k : raw[j] \in WhiteSpace
              /\ a <= b => (raw[a] \notin WhiteSpace /\ raw[b] \notin WhiteSpace)

\* the input lines taken so far that hold a command, by position
TakenCommandLines == {i \in 1..pos : ~IsNormalized(input_lines[i], <<>>)}

\* the k-th of them
TakenCommandLine(k) ==
    CHOOSE i \in TakenCommandLines :
        Cardinality({j \in TakenCommandLines : j <= i}) = k

\* a written line without its CR LF
Payload(written) == SubSeq(written, 1, Len(written) - 2)

\* the handler returned Ok: no write and no read failed
HandlerOk == pc' # "err"

SessionFields == <<running, printer_online, pending_pause, paused>>

-----------------------------------------------------------------------------
(* C1: no input command is written to the printer before a line starting   *)
(* with "start" has been handled.                                          *)
C1_NoCommandBeforeStart ==
    (\E i \in 1..Len(sent) : IsOrdinary(sent[i])) => start_lines > 0

(* C2, as claimed: between two consecutive writes to the printer a line    *)
(* starting with "ok" has been handled.                                    *)
C2_AckBetweenSends ==
    [][(sent' # sent /\ sent # <<>>)
         => (ok_since_send \/ StartsWithToken(Head(event_rx), OK))]_vars

(* C2, amended: between two consecutive writes a line starting with "ok"   *)
(* has been handled, unless the later write is the M602 written at once    *)
(* for a resume marker or is the one made for the first "start" line.      *)
C2_AckBetweenSendsUnlessResumeOrStart ==
    [][(sent' # sent /\ sent # <<>>)
         => \/ ok_since_send
            \/ StartsWithToken(Head(event_rx), OK)
            \/ HandledRule = "resume" /\ sent' = Append(sent, ResumeCommand)
            \/ HandledRule = "start" /\ ~printer_online]_vars

\* start and ok each answered by one input command
C2_Witness ==
    /\ Len(sent) = 2
    /\ IsOrdinary(sent[1])
    /\ IsOrdinary(sent[2])
    /\ start_lines = 1
    /\ handled = 2

(* C3: while paused is true only a line handled as a resume marker causes  *)
(* a write (of M602).                                                      *)
C3_PausedOnlyResumeSends ==
    [][(paused /\ sent' # sent)
         => (HandledRule = "resume" /\ sent' = Append(sent, ResumeCommand))]_vars

(* C4: handling one event writes at most one line, and an advance          *)
(* condition met while pending_pause is set or an input command is left    *)
(* writes exactly one (the handler returning Ok).                          *)
C4_OneLinePerAdvance ==
    [][/\ Len(sent') <= Len(sent) + 1
       /\ SubSeq(sent', 1, Len(sent)) = sent
       /\ (sent' # sent => HandleStep)
       /\ (HandleStep /\ AdvanceCondition /\ HandlerOk
             /\ (pending_pause \/ HasCommand(pos)))
            => Len(sent') = Len(sent) + 1]_vars

\* one advance has skipped a line without command and written one command
C4_Witness ==
    /\ handled = 1
    /\ pos = 2
    /\ Len(sent) = 1
    /\ TrimmedLine(input_lines[1]) = <<>>
    /\ sent[1] = TrimmedLine(input_lines[2]) \o CRLF

(* C5, as claimed: the first "start" line, handled while printer_online is *)
(* false and nothing is written yet, writes exactly one command and sets   *)
(* printer_online.                                                         *)
C5_FirstStartSendsOne ==
    [][(HandleStep /\ HandledRule = "start" /\ ~printer_online /\ sent = <<>>
          /\ HandlerOk)
         => (Len(sent') = 1 /\ printer_online')]_vars

(* C5, amended: the first line handled by the start rule sets              *)
(* printer_online for good and, nothing being written yet, writes exactly  *)
(* one command if pending_pause is set or an input command is left, and    *)
(* otherwise writes nothing and clears running; a line handled by the      *)
(* start rule later writes nothing, takes no input line and leaves the     *)
(* session fields as they are.                                             *)
C5_StartOnlyOnce ==
    [][/\ printer_online => printer_online'
       /\ (HandleStep /\ HandledRule = "start")
            => IF ~printer_online
               THEN /\ printer_online'
                    /\ (sent = <<>> /\ HandlerOk)
                         => IF pending_pause \/ HasCommand(pos)
                            THEN Len(sent') = 1
                            ELSE sent' = sent /\ ~running'
               ELSE /\ sent' = sent
                    /\ pos' = pos
                    /\ UNCHANGED SessionFields]_vars

\* two "start" lines handled, one command written
C5_Witness ==
    /\ start_lines = 2
    /\ handled = 2
    /\ printer_online
    /\ Len(sent) = 1
    /\ pos = 1
    /\ running

C7_ResumeSendsM602 ==
    [][(HandleStep /\ HandledRule = "resume")
         => /\ UNCHANGED SessionFields
            /\ pos' = pos
            /\ sent' = IF HandlerOk THEN Append(sent, ResumeCommand) ELSE sent]_vars

\* M602 written while paused, with an input command still waiting
C7_Witness ==
    /\ paused
    /\ sent # <<>>
    /\ sent[Len(sent)] = ResumeCommand
    /\ HasCommand(pos)
    /\ pc = "run"

(* C8: once a line is handled as cancel marker, running is false, no event *)
(* is received any more, nothing is written any more, and the run loop can *)
(* only return Ok.                                                         *)
C8_CancelStops ==
    /\ [](cancelled => (~running /\ pc \in {"run", "ok"}))
    /\ []((cancelled /\ pc = "run") => ENABLED RunExit)
    /\ [][cancelled => (/\ handled' = handled
                        /\ sent' = sent
                        /\ pos' = pos
                        /\ pc' \in {"run", "ok"})]_vars

\* returned Ok after a cancel, with input commands left and an event never received
C8_Witness ==
    /\ cancelled
    /\ pc = "ok"
    /\ HasCommand(pos)
    /\ handled < nread

(* C9: send_line called with pending_pause false and no input command left *)
(* writes nothing and clears running without error; the run loop then      *)
(* returns Ok without receiving another event.                             *)
C9_ExhaustedInputStops ==
    /\ [][(HandleStep /\ AdvanceCondition /\ ~pending_pause /\ ~HasCommand(pos)
             /\ HandlerOk)
            => /\ sent' = sent
               /\ ~running'
               /\ pc' = "run"
               /\ pos' = Len(input_lines)]_vars
    /\ []((pc = "run" /\ ~running) => ENABLED RunExit)
    /\ [][(pc = "run" /\ ~running)
            => (handled' = handled /\ sent' = sent /\ pc' \in {"run", "ok"})]_vars

\* returned Ok at the end of the input, whose last line holds no command
C9_Witness ==
    /\ pc = "ok"
    /\ ~cancelled
    /\ Len(input_lines) = 2
    /\ pos = 2
    /\ TrimmedLine(input_lines[2]) = <<>>
    /\ Len(sent) = 1
    /\ ~running

(* C10: pending_pause and paused are not both true.                        *)
C10_NotPendingAndPaused == ~(pending_pause /\ paused)

(* C11: paused is true only between a written M601 and a handled resume    *)
(* marker: when paused is true, M601 has been written and no resume marker *)
(* was handled since (a handled resume marker writes M602).                *)
C11_PausedOnlyUntilResume ==
    (paused /\ pc # "err")
        => \E i \in 1..Len(sent) :
              /\ sent[i] = PauseCommand
              /\ \A j \in (i + 1)..Len(sent) : sent[j] # ResumeCommand

(* C14: when the event received is a failed read of the serial port, run   *)
(* returns the error at once: nothing is written for the event, no field   *)
(* of the App changes, no input line is taken, and after the error no      *)
(* further event is received and nothing more is written (no retry).       *)
C14_ReadFailureIsFatal ==
    /\ [][(HandleStep /\ HandledRule = "rx_err")
            => /\ pc' = "err"
               /\ error' = "printer recv"
               /\ sent' = sent
               /\ pos' = pos
               /\ UNCHANGED SessionFields]_vars
    /\ [][pc = "err" => (handled' = handled /\ sent' = sent /\ pc' = "err")]_vars

C14_Witness ==
    /\ error = "printer recv"
    /\ handled >= 2
    /\ sent # <<>>
    /\ running

(* C15: when the reader thread has ended while running is true, the events *)
(* still queued are received first; on the empty channel recv then fails   *)
(* (no other Sender exists) and run returns the error "event recv".  While *)
(* the reader thread is alive, recv on the empty channel does not fail.    *)
C15_ReaderEndFailsRecv ==
    /\ [](pc = "run" /\ running /\ reader = "ended" /\ event_rx = <<>>
            => ENABLED RunRecvFail /\ ~ENABLED RunRecv)
    /\ [](pc = "run" /\ running /\ reader = "ended" /\ event_rx # <<>>
            => ENABLED RunRecv /\ ~ENABLED RunRecvFail)
    /\ [](pc = "run" /\ running /\ reader = "alive" /\ event_rx = <<>>
            => ~ENABLED RunRecvFail)
    /\ [][(pc = "run" /\ running /\ reader = "ended" /\ event_rx = <<>>)
            => /\ pc' = "err"
               /\ error' = "event recv"
               /\ sent' = sent
               /\ handled' = handled]_vars

C15_Witness ==
    /\ error = "event recv"
    /\ pc = "err"
    /\ handled >= 1
    /\ running

(* C17: paused goes from false to true only in a step that handles an      *)
(* event under an advance condition with pending_pause true: that step     *)
(* writes M601, takes no input line and leaves pending_pause false.        *)
C17_PausedOnlyByConsumingPending ==
    [][(~paused /\ paused')
          => /\ HandleStep
             /\ AdvanceCondition
             /\ pending_pause
             /\ ~pending_pause'
             /\ sent' = Append(sent, PauseCommand)
             /\ pos' = pos]_vars

C17_Witness ==
    /\ paused
    /\ ~pending_pause
    /\ handled = 2
    /\ sent = <<PauseCommand>>
    /\ pc = "run"

(* C19: the input commands written so far (what was written, without the   *)
(* injected M601 / M602) are a prefix of the commands held by the input    *)
(* lines, in input order; as long as no read or write has failed they are  *)
(* exactly the commands of the input lines taken so far, so no taken line  *)
(* is lost or written twice, whatever pause / resume lines came between.   *)
C19_SentIsPrefixOfInput ==
    /\ IsPrefix(OrdinarySent, CommandsOf(input_lines))
    /\ pos <= Len(input_lines)
    /\ pc # "err" => OrdinarySent = CommandsOf(SubSeq(input_lines, 1, pos))

C19_Witness ==
    /\ sent # <<>>
    /\ sent[1] = PauseCommand
    /\ \E i \in 2..Len(sent) : sent[i] = ResumeCommand
    /\ IsOrdinary(sent[Len(sent)])
    /\ pos = 2
    /\ pc = "run"

(* C16: for every line of the printer exactly the first rule that matches, *)
(* in the order cancel marker, pause marker, resume marker, "start"        *)
(* prefix, "ok" prefix, takes effect and no other: a line with the cancel  *)
(* marker only sets running to false; otherwise a line with the pause      *)
(* marker only sets pending_pause; otherwise a line with the resume marker *)
(* only writes M602; otherwise a line starting with "start" advances when  *)
(* the printer was not online and does nothing when it was; otherwise a    *)
(* line starting with "ok" advances when not paused and does nothing when  *)
(* paused; any other line does nothing.  So "ok //action:pause" only sets  *)
(* pending_pause and "start //action:cancel" only sets running to false.   *)
C16_FirstMatchingRuleOnly ==
    [][HandleStep /\ Head(event_rx).ok =>
        LET line == Trim(Head(event_rx).line)
            cancel == Contains(line, ACTION_CANCEL)
            pause == ~cancel /\ Contains(line, ACTION_PAUSE)
            resume == ~cancel /\ ~pause /\ Contains(line, ACTION_RESUME)
            marker == cancel \/ pause \/ resume
            start == ~marker /\ StartsWith(line, START)
            ok == ~marker /\ ~start /\ StartsWith(line, OK)
            advance == (start /\ ~printer_online) \/ (ok /\ ~paused)
        IN  /\ cancel => /\ ~running'
                         /\ UNCHANGED <<printer_online, pending_pause, paused,
                                        sent, pos>>
                         /\ pc' = "run"
            /\ pause => /\ pending_pause'
                        /\ UNCHANGED <<running, printer_online, paused, sent, pos>>
                        /\ pc' = "run"
            /\ resume => /\ UNCHANGED <<SessionFields, pos>>
                         /\ HandlerOk => sent' = Append(sent, ResumeCommand)
                         /\ ~HandlerOk => sent' = sent
            /\ start => /\ printer_online'
                        /\ printer_online => UNCHANGED <<SessionFields, sent, pos>>
            /\ ok => /\ UNCHANGED printer_online
                     /\ paused => UNCHANGED <<SessionFields, sent, pos>>
            /\ advance /\ HandlerOk
                 => /\ Len(sent') = Len(sent) + 1 \/ (sent' = sent /\ ~running')
                    /\ Len(sent') = Len(sent) + 1
                         => IsOrdinary(sent'[Len(sent')]) \/ pending_pause
            /\ ~marker /\ ~advance => UNCHANGED <<SessionFields, sent, pos>>
            /\ Head(event_rx).line = DevOkPause
                 => /\ pending_pause'
                    /\ UNCHANGED <<running, printer_online, paused, sent, pos>>
            /\ Head(event_rx).line = DevStartCancel
                 => /\ ~running'
                    /\ UNCHANGED <<printer_online, pending_pause, paused, sent, pos>>
      ]_vars

(* both examples have happened: "ok //action:pause" was handled, then      *)
(* "start //action:cancel"                                                 *)
C16_Witness ==
    /\ handled = 2
    /\ ok_since_send
    /\ pending_pause
    /\ start_lines = 1
    /\ cancelled
    /\ ~printer_online
    /\ ~running
    /\ sent = <<>>
    /\ pos = 0

(* C18, as claimed: once paused is true it stays true, and from then on no *)
(* line starting with "ok" causes a write.                                 *)
C18_PausedNoOkLineWrites ==
    /\ [][paused => paused']_vars
    /\ [][(paused /\ HandleStep /\ StartsWithToken(Head(event_rx), OK))
            => sent' = sent]_vars

(* C18, amended: once paused is true it stays true, whatever lines follow  *)
(* (resume markers included); from then on a line handled by the "ok" rule *)
(* (starting with "ok", no action marker in it) writes nothing and takes   *)
(* no input line, and the only write a line starting with "ok" can cause   *)
(* is the M602 of a resume marker it contains.                             *)
C18_PausedForeverOkRuleSilent ==
    /\ [][paused => paused']_vars
    /\ [][(paused /\ HandleStep /\ HandledRule = "ok")
            => UNCHANGED <<sent, pos, SessionFields>>]_vars
    /\ [][(paused /\ HandleStep /\ StartsWithToken(Head(event_rx), OK)
                  /\ sent' # sent)
            => /\ HandledRule = "resume"
               /\ sent' = Append(sent, ResumeCommand)
               /\ pos' = pos]_vars

(* paused, M602 written for a resume marker, then a line starting with     *)
(* "ok" handled without a write although input commands are left           *)
C18_Witness ==
    /\ paused
    /\ sent # <<>>
    /\ sent[Len(sent)] = ResumeCommand
    /\ ok_since_send
    /\ HasCommand(pos)
    /\ running
    /\ pc = "run"

(* C12: the command written for an input line is the text before the       *)
(* first ';' of the line, whatever follows it (further ';' included), or   *)
(* the whole line when it has no ';', without leading and trailing         *)
(* whitespace, followed by CR LF: "G1 X10 ; move" is written as "G1 X10"   *)
(* CR LF.                                                                  *)
C12_CommandIsTextBeforeFirstSemicolon ==
    /\ Len(sent) <= Cardinality(TakenCommandLines)
    /\ \A k \in 1..Len(sent) :
          LET raw == input_lines[TakenCommandLine(k)]
          IN  /\ Len(sent[k]) >= 2
              /\ SubSeq(sent[k], Len(sent[k]) - 1, Len(sent[k])) = <<"\r", "\n">>
              /\ IsNormalized(raw, Payload(sent[k]))
              /\ raw = InMove
                   => sent[k] = <<"G", "1", " ", "X", "1", "0", "\r", "\n">>

(* "G;;" and "G1 X10 ; move" have both been written *)
C12_Witness ==
    /\ input_lines = <<InMove, <<"G", ";", ";">>>>
    /\ sent = <<<<"G", "1", " ", "X", "1", "0", "\r", "\n">>, <<"G", "\r", "\n">>>>

(* C13: no empty command is written: every written line holds at least one *)
(* character before its CR LF, and an input line that is empty, whitespace *)
(* only or comment only is skipped without a write (the lines written are  *)
(* as many as the taken input lines that hold a command, and one handler   *)
(* writes at most one of them).                                            *)
C13_NoEmptyCommandWritten ==
    /\ [](\A k \in 1..Len(sent) :
             /\ Len(sent[k]) > 2
             /\ Payload(sent[k]) # <<>>
             /\ Payload(sent[k])[1] \notin WhiteSpace)
    /\ [](Len(sent) = Cardinality(TakenCommandLines))
    /\ [][Len(sent') <= Len(sent) + 1]_vars
    /\ [][\A i \in (pos + 1)..pos' :
             IsNormalized(input_lines[i], <<>>) \/ (i = pos' /\ sent' # sent)]_vars

(* a whitespace-and-comment line was skipped and the next line written by  *)
(* the same handler                                                        *)
C13_Witness ==
    /\ input_lines = <<<<" ", ";", "G">>, InG28>>
    /\ pos = 2
    /\ handled = 1
    /\ sent = <<InG28 \o CRLF>>

(* C20: with the well-behaved printer and both threads scheduled, every    *)
(* command of the input is eventually written, in order, and run returns   *)
(* Ok with running false.                                                  *)
C20_AllSentAndTerminates ==
    <>[](/\ pc = "ok"
         /\ error = "none"
         /\ ~running
         /\ pos = Len(input_lines)
         /\ sent = CommandsOf(input_lines))

C20_Witness ==
    /\ pc = "ok"
    /\ ~running
    /\ Len(input_lines) = 2
    /\ Len(sent) = 2
    /\ sent = CommandsOf(input_lines)
    /\ handled = 3

=============================================================================
